---- MODULE Spec2Model ----
(***************************************************************************)
(* A model of ProtAtlasViz: the DataLoader of data_loader.py (dictionary   *)
(* parser, tissue resolver, gene filter, organ aggregator) and the two     *)
(* Dash callbacks of app.py with the three chart builders.                 *)
(*                                                                         *)
(* A Python str is a sequence of tokens: a token is "#", " " or a word     *)
(* that holds neither.  strip, startswith, slicing and lower act on the    *)
(* tokens as the str methods act on the characters.  A Python dict is a    *)
(* sequence of [key, val] records in insertion order with distinct keys.   *)
(***************************************************************************)
EXTENDS Integers, Sequences, FiniteSets, TLC

VARIABLES
    expression_data,  \* DataLoader.expression_data: the rows of the table
    tissue_groups,    \* DataLoader.tissue_groups: dict group -> list of tissues
    genes,            \* DataLoader.genes: sorted distinct gene names
    ret               \* the call under way: its name, inputs and return value

vars == <<expression_data, tissue_groups, genes, ret>>

-----------------------------------------------------------------------------
(* Bounds of the model.                                                    *)

MaxLines == 5
MaxFileLines == 4
MaxTissues == 3
MaxDictLines == 3
MaxRows == 2

-----------------------------------------------------------------------------
(* Constants of the program.                                               *)

\* update_visualization: "if len(selected_genes) > 10"
MaxGenes == 10

\* update_gene_count: "if count > 10"
GeneCountLimit == 10

-----------------------------------------------------------------------------
(* Strings.                                                                *)

Hash == "#"
Space == " "
Other == <<"Other">>

\* str.lower on the words of the model; "#", " " and lower-case words are
\* left as they are.
LowerTable ==
    ("Liver" :> "liver") @@ ("LIVER" :> "liver") @@ ("Skin" :> "skin") @@
    ("Other" :> "other") @@ ("Digestive" :> "digestive") @@
    ("Brain" :> "brain")

LowerTok(t) == IF t \in DOMAIN LowerTable THEN LowerTable[t] ELSE t

Lower(s) == [i \in 1..Len(s) |-> LowerTok(s[i])]

RECURSIVE LStrip(_)
LStrip(s) ==
    IF s # <<>> /\ Head(s) = Space THEN LStrip(Tail(s)) ELSE s

RECURSIVE RStrip(_)
RStrip(s) ==
    IF s # <<>> /\ s[Len(s)] = Space THEN RStrip(SubSeq(s, 1, Len(s) - 1)) ELSE s

Strip(s) == RStrip(LStrip(s))

StartsWithHash(s) == s # <<>> /\ Head(s) = Hash

-----------------------------------------------------------------------------
(* Sequences and dicts.                                                    *)

SeqToSet(s) == {s[i] : i \in 1..Len(s)}

InSeq(x, s) == \E i \in 1..Len(s) : s[i] = x

NoDuplicates(s) == \A i, j \in 1..Len(s) : s[i] = s[j] => i = j

\* pandas Series.unique(): the distinct values in order of first appearance.
RECURSIVE Unique(_)
Unique(s) ==
    IF s = <<>> THEN <<>>
    ELSE LET rest == Unique(SubSeq(s, 1, Len(s) - 1))
             last == s[Len(s)]
         IN  IF InSeq(last, rest) THEN rest ELSE Append(rest, last)

DictKeys(d) == [i \in 1..Len(d) |-> d[i].key]

DictHas(d, k) == \E i \in 1..Len(d) : d[i].key = k

DictGet(d, k) == d[CHOOSE i \in 1..Len(d) : d[i].key = k].val

\* d[k] = v: a new key is appended, an old key keeps its place and takes v.
DictSet(d, k, v) ==
    IF DictHas(d, k)
    THEN [i \in 1..Len(d) |-> IF d[i].key = k THEN [key |-> k, val |-> v] ELSE d[i]]
    ELSE Append(d, [key |-> k, val |-> v])

\* dict.get(k, default)
DictGetOr(d, k, default) == IF DictHas(d, k) THEN DictGet(d, k) ELSE default

-----------------------------------------------------------------------------
(* DataLoader.load_histology_dictionary                                    *)

\* One pass of the loop over the lines: st.groups is tissue_groups so far,
\* st.cur is current_group (<<>> is None, <<name>> a group name).
ParseLine(st, raw) ==
    LET line == Strip(raw) IN
    IF line = <<>> THEN st
    ELSE IF StartsWithHash(line)
    THEN LET name == Strip(Tail(line))
         IN  [groups |-> DictSet(st.groups, name, <<>>), cur |-> <<name>>]
    ELSE IF st.cur # <<>> /\ st.cur[1] # <<>>
    THEN [st EXCEPT !.groups =
              DictSet(@, st.cur[1], Append(DictGet(@, st.cur[1]), line))]
    ELSE st

RECURSIVE ParseLines(_, _)
ParseLines(lines, st) ==
    IF lines = <<>> THEN st
    ELSE ParseLines(Tail(lines), ParseLine(st, Head(lines)))

LoadHistologyDictionary(lines) ==
    ParseLines(lines, [groups |-> <<>>, cur |-> <<>>]).groups

-----------------------------------------------------------------------------
(* DataLoader.get_tissue_to_group_mapping, get_ordered_tissues_by_group    *)
(* Both start with "if self.tissue_groups is None: load" and the same for  *)
(* expression_data; start-up has loaded both, so neither load runs.        *)

Column(data, col) == [i \in 1..Len(data) |-> data[i][col]]

AllTissuesInData(data) == Unique(Column(data, "Tissue"))

\* The (group, tissue) pairs in the order of the two nested loops.
RECURSIVE Entries(_)
Entries(groups) ==
    IF groups = <<>> THEN <<>>
    ELSE LET g == Head(groups)
         IN  [i \in 1..Len(g.val) |-> [group |-> g.key, tissue |-> g.val[i]]]
             \o Entries(Tail(groups))

MatchingTissuesExact(all, tissue) ==
    SelectSeq(all, LAMBDA t : t = tissue)

MatchingTissues(all, tissue) ==
    SelectSeq(all, LAMBDA t : Lower(t) = Lower(tissue))

RECURSIVE MapEntries(_, _, _)
MapEntries(entries, all, tissue_to_group) ==
    IF entries = <<>> THEN tissue_to_group
    ELSE LET e == Head(entries)
             matching_tissues == MatchingTissues(all, e.tissue)
         IN  MapEntries(Tail(entries), all,
                 IF matching_tissues # <<>>
                 THEN DictSet(tissue_to_group, matching_tissues[1], e.group)
                 ELSE tissue_to_group)

GetTissueToGroupMapping(groups, data) ==
    MapEntries(Entries(groups), AllTissuesInData(data), <<>>)

RECURSIVE OrderEntries(_, _, _)
OrderEntries(entries, all, ordered_tissues) ==
    IF entries = <<>> THEN ordered_tissues
    ELSE LET e == Head(entries)
             matching_tissues == MatchingTissues(all, e.tissue)
         IN  OrderEntries(Tail(entries), all,
                 IF matching_tissues # <<>>
                 THEN Append(ordered_tissues, matching_tissues[1])
                 ELSE ordered_tissues)

\* A fallback loop that appends the tissue and forgets its group.
RECURSIVE AddOthersUnmapped(_, _)
AddOthersUnmapped(all, st) ==
    IF all = <<>> THEN st
    ELSE LET tissue == Head(all)
         IN  AddOthersUnmapped(Tail(all),
                 IF ~InSeq(tissue, st.ordered)
                 THEN [st EXCEPT !.ordered = Append(@, tissue)]
                 ELSE st)

\* The loop "Add any tissues not in dictionary at the end".
RECURSIVE AddOthersLoop(_, _)
AddOthersLoop(all, st) ==
    IF all = <<>> THEN st
    ELSE LET tissue == Head(all)
         IN  AddOthersLoop(Tail(all),
                 IF ~InSeq(tissue, st.ordered)
                 THEN [ordered |-> Append(st.ordered, tissue),
                       tissue_to_group |-> DictSet(st.tissue_to_group, tissue, Other)]
                 ELSE st)

AddOthers(all, st) == AddOthersLoop(all, st)

GetOrderedTissuesByGroup(groups, data) ==
    LET tissue_to_group == GetTissueToGroupMapping(groups, data)
        all == AllTissuesInData(data)
        ordered_tissues == OrderEntries(Entries(groups), all, <<>>)
    IN  AddOthers(all, [ordered |-> ordered_tissues,
                        tissue_to_group |-> tissue_to_group])

-----------------------------------------------------------------------------
(* Ordering of strings: Python compares str by code point.  TokenOrder     *)
(* lists the tokens of the model in that order; no token is a prefix of    *)
(* another, so comparing token by token is comparing character by          *)
(* character.                                                              *)

TokenOrder ==
    <<" ", "#", "ALB", "Brain", "Digestive", "ENSG1", "ENSG2", "ENSG3",
      "INS", "LIVER", "Liver", "Other", "Skin", "X01", "X02", "X03", "X04",
      "X05", "X06", "X07", "X08", "X09", "X10", "X11", "liver", "skin">>

TokRank(t) == CHOOSE i \in 1..Len(TokenOrder) : TokenOrder[i] = t

RECURSIVE StrLess(_, _)
StrLess(a, b) ==
    IF b = <<>> THEN FALSE
    ELSE IF a = <<>> THEN TRUE
    ELSE IF Head(a) = Head(b) THEN StrLess(Tail(a), Tail(b))
    ELSE TokRank(Head(a)) < TokRank(Head(b))

\* sorted(xs) on a list of str: x goes after the elements not greater than it.
RECURSIVE InsertSorted(_, _)
InsertSorted(x, s) ==
    IF s = <<>> THEN <<x>>
    ELSE IF StrLess(x, Head(s)) THEN <<x>> \o s
    ELSE <<Head(s)>> \o InsertSorted(x, Tail(s))

RECURSIVE Sorted(_)
Sorted(s) ==
    IF s = <<>> THEN <<>>
    ELSE InsertSorted(s[Len(s)], Sorted(SubSeq(s, 1, Len(s) - 1)))

-----------------------------------------------------------------------------
(* Values of the nTPM column: the rational num/den, or, with lg, the       *)
(* irrational log2(num/den).  den = 0 is NaN, pandas' missing value.       *)

Num(n) == [num |-> n, den |-> 1, lg |-> FALSE]

NaN == [num |-> 0, den |-> 0, lg |-> FALSE]

IsNa(v) == v.den = 0

-----------------------------------------------------------------------------
(* DataLoader.load_expression_data and the state after start-up            *)
(* (app.py: DataLoader(), load_expression_data, load_histology_dictionary) *)

Row(gene, name, tissue, value) ==
    [Gene |-> gene, GeneName |-> name, Tissue |-> tissue, nTPM |-> value]

LoadedGenes(data) == Sorted(Unique(Column(data, "GeneName")))

\* The dictionaries load_histology_dictionary reads from the files `files`.
Dictionaries(files) == {LoadHistologyDictionary(lines) : lines \in files}

Startup(dictionary, table) ==
    /\ expression_data = table
    /\ genes = LoadedGenes(table)
    /\ tissue_groups = dictionary
    /\ ret = [op |-> "idle"]

loader == <<expression_data, tissue_groups, genes>>

\* No call is under way: the program runs one call at a time, to completion.
Idle == ret.op = "idle"

\* The return value of the call goes to the caller (for a callback, to the
\* browser), and the next call may start.
Return ==
    /\ ~Idle
    /\ ret' = [op |-> "idle"]
    /\ UNCHANGED loader

-----------------------------------------------------------------------------
(* DataLoader.get_expression_for_genes                                     *)

\* expression_data[expression_data['Gene name'].isin(gene_names)].copy()
GetExpressionForGenes(data, gene_names) ==
    SelectSeq(data, LAMBDA r : InSeq(r.GeneName, gene_names))

-----------------------------------------------------------------------------
(* DataLoader.aggregate_by_organ_group                                     *)

RECURSIVE Gcd(_, _)
Gcd(a, b) == IF b = 0 THEN a ELSE Gcd(b, a % b)

\* The rational n/d in lowest terms (d > 0, n >= 0).
Ratio(n, d) ==
    LET g == Gcd(n, d) IN [num |-> n \div g, den |-> d \div g, lg |-> FALSE]

\* a + b for rationals
Plus(a, b) == Ratio(a.num * b.den + b.num * a.den, a.den * b.den)

RECURSIVE SumValues(_)
SumValues(vs) ==
    IF vs = <<>> THEN Num(0) ELSE Plus(Head(vs), SumValues(Tail(vs)))

\* A "mean" that forgets to divide.
SumOnly(vs) ==
    LET present == SelectSeq(vs, LAMBDA v : ~IsNa(v))
    IN  IF present = <<>> THEN NaN ELSE SumValues(present)

\* Series.mean(): the mean of the values that are not missing, NaN if none.
Mean(vs) ==
    LET present == SelectSeq(vs, LAMBDA v : ~IsNa(v))
        total == SumValues(present)
    IN  IF present = <<>> THEN NaN
        ELSE Ratio(total.num, total.den * Len(present))

\* data['Tissue'].map(tissue_to_group).fillna('Other') for one row
OrganGroup(tissue_to_group, tissue) == DictGetOr(tissue_to_group, tissue, Other)

\* The order of groupby's sorted keys (Gene, Gene name, Organ Group).
KeyLess(a, b) ==
    \/ StrLess(a.Gene, b.Gene)
    \/ /\ a.Gene = b.Gene
       /\ \/ StrLess(a.GeneName, b.GeneName)
          \/ a.GeneName = b.GeneName /\ StrLess(a.Tissue, b.Tissue)

RECURSIVE InsertKey(_, _)
InsertKey(k, s) ==
    IF s = <<>> THEN <<k>>
    ELSE IF KeyLess(k, Head(s)) THEN <<k>> \o s
    ELSE <<Head(s)>> \o InsertKey(k, Tail(s))

RECURSIVE SortKeys(_)
SortKeys(s) ==
    IF s = <<>> THEN <<>>
    ELSE InsertKey(s[Len(s)], SortKeys(SubSeq(s, 1, Len(s) - 1)))

AggregateByOrganGroup(groups, table, data) ==
    LET tissue_to_group == GetTissueToGroupMapping(groups, table)
        grouped == [i \in 1..Len(data) |->
                       [Gene |-> data[i].Gene, GeneName |-> data[i].GeneName,
                        Tissue |-> OrganGroup(tissue_to_group, data[i].Tissue)]]
        keys == SortKeys(Unique(grouped))
        values(k) == [j \in 1..Len(SelectSeq(grouped, LAMBDA g : g = k)) |->
                         data[CHOOSE i \in 1..Len(data) :
                                  /\ grouped[i] = k
                                  /\ Cardinality({h \in 1..i : grouped[h] = k}) = j
                             ].nTPM]
    IN  [i \in 1..Len(keys) |->
            Row(keys[i].Gene, keys[i].GeneName, keys[i].Tissue, Mean(values(keys[i])))]

-----------------------------------------------------------------------------
(* app.py: the log transform of update_visualization                       *)

RECURSIVE IsPow2(_)
IsPow2(n) == n = 1 \/ (n > 1 /\ n % 2 = 0 /\ IsPow2(n \div 2))

RECURSIVE Log2(_)
Log2(n) == IF n <= 1 THEN 0 ELSE 1 + Log2(n \div 2)

RECURSIVE Pow2(_)
Pow2(k) == IF k = 0 THEN 1 ELSE 2 * Pow2(k - 1)

\* np.log2(v + 1): an integer when v + 1 is a power of two, otherwise the
\* irrational log2((num + den) / den), kept as such.  NaN stays NaN.
Log2P1(v) ==
    IF IsNa(v) THEN NaN
    ELSE IF v.den = 1 /\ IsPow2(v.num + 1) THEN Num(Log2(v.num + 1))
    ELSE [num |-> v.num + v.den, den |-> v.den, lg |-> TRUE]

\* 2**w - 1, the original value shown in the hover text
Exp2M1(w) ==
    IF w.lg THEN Ratio(w.num - w.den, w.den)
    ELSE IF w.den = 1 THEN Num(Pow2(w.num) - 1)
    ELSE w

LogTransform(data) ==
    [i \in 1..Len(data) |-> [data[i] EXCEPT !.nTPM = Log2P1(@)]]

-----------------------------------------------------------------------------
(* app.py: create_heatmap                                                  *)

Max(a, b) == IF a >= b THEN a ELSE b
Min(a, b) == IF a <= b THEN a ELSE b

\* max(800, min(2000, num_tissues * 25 + 200))
DynamicWidth(num_tissues) == Max(800, Min(2000, num_tissues * 25 + 200))

\* DataFrame.pivot raises ValueError when two rows share (index, column).
PivotRaises(data) ==
    \E i, j \in 1..Len(data) :
        i # j /\ data[i].GeneName = data[j].GeneName /\ data[i].Tissue = data[j].Tissue

\* A pivot that fills the cells without a row with 0.
PivotCellZeroFilled(data, gene, tissue) ==
    IF \E i \in 1..Len(data) : data[i].GeneName = gene /\ data[i].Tissue = tissue
    THEN data[CHOOSE i \in 1..Len(data) :
                  data[i].GeneName = gene /\ data[i].Tissue = tissue].nTPM
    ELSE Num(0)

\* The cell of the pivoted frame: the row's nTPM, NaN where there is no row.
PivotCell(data, gene, tissue) ==
    IF \E i \in 1..Len(data) : data[i].GeneName = gene /\ data[i].Tissue = tissue
    THEN data[CHOOSE i \in 1..Len(data) :
                  data[i].GeneName = gene /\ data[i].Tissue = tissue].nTPM
    ELSE NaN

\* One string of hover_text, before its numbers are formatted; na stands
\* for the text "nTPM: N/A".
HoverText(gene, tissue, value, tissue_to_group, log_scale) ==
    IF IsNa(value)
    THEN [na |-> TRUE, gene |-> gene, tissue |-> tissue]
    ELSE IF log_scale
    THEN [na |-> FALSE, gene |-> gene, tissue |-> tissue,
          organ |-> DictGetOr(tissue_to_group, tissue, Other),
          log2 |-> value, nTPM |-> Exp2M1(value)]
    ELSE [na |-> FALSE, gene |-> gene, tissue |-> tissue,
          organ |-> DictGetOr(tissue_to_group, tissue, Other),
          nTPM |-> value]

\* The places i of fig.add_vline(x = i - 0.5): the columns whose group
\* differs from the group of the column before (current_group starts None).
GroupSeparators(columns, tissue_to_group) ==
    LET group(i) == DictGetOr(tissue_to_group, columns[i], Other)
    IN  SelectSeq([i \in 1..Len(columns) |-> i - 1],
                  LAMBDA k : k = 0 \/ group(k + 1) # group(k))

CreateHeatmap(data, ordered_tissues, tissue_to_group, show_groups, log_scale) ==
    IF PivotRaises(data)
    THEN [kind |-> "raise", error |-> "ValueError", at |-> "pivot"]
    ELSE
    LET index == Sorted(Unique(Column(data, "GeneName")))
        pivot_columns == Sorted(Unique(Column(data, "Tissue")))
        available_tissues == SelectSeq(ordered_tissues,
                                       LAMBDA t : InSeq(t, pivot_columns))
        z == [i \in 1..Len(index) |->
                 [j \in 1..Len(available_tissues) |->
                     PivotCell(data, index[i], available_tissues[j])]]
    IN  \* a repeated column label makes pivot_data.loc[gene, tissue] a
        \* Series, and "if pd.isna(value)" raises ValueError on a Series
        IF ~NoDuplicates(available_tissues)
        THEN [kind |-> "raise", error |-> "ValueError", at |-> "hover_text"]
        ELSE [kind |-> "figure", type |-> "heatmap",
              data |-> data,
              x |-> available_tissues, y |-> index, z |-> z,
              customdata |->
                  [i \in 1..Len(index) |->
                      [j \in 1..Len(available_tissues) |->
                          HoverText(index[i], available_tissues[j], z[i][j],
                                    tissue_to_group, log_scale)]],
              vlines |-> IF show_groups
                         THEN GroupSeparators(available_tissues, tissue_to_group)
                         ELSE <<>>,
              log_scale |-> log_scale,
              width |-> DynamicWidth(Len(available_tissues)),
              height |-> Max(600, Len(index) * 60)]

-----------------------------------------------------------------------------
(* app.py: create_bar_chart, create_box_plot                               *)

\* The code of a tissue in pd.Categorical(categories = ordered_tissues):
\* its place in the categories; a tissue that is no category is NaN and
\* sorts last.
CategoryCode(ordered_tissues, tissue) ==
    IF InSeq(tissue, ordered_tissues)
    THEN CHOOSE i \in 1..Len(ordered_tissues) : ordered_tissues[i] = tissue
    ELSE Len(ordered_tissues) + 1

\* data.sort_values('Tissue'): rows by category code, ties in row order.
RECURSIVE InsertRow(_, _, _)
InsertRow(r, s, cats) ==
    IF s = <<>> THEN <<r>>
    ELSE IF CategoryCode(cats, r.Tissue) < CategoryCode(cats, Head(s).Tissue)
    THEN <<r>> \o s
    ELSE <<Head(s)>> \o InsertRow(r, Tail(s), cats)

RECURSIVE SortByTissue(_, _)
SortByTissue(data, cats) ==
    IF data = <<>> THEN <<>>
    ELSE InsertRow(data[Len(data)],
                   SortByTissue(SubSeq(data, 1, Len(data) - 1), cats), cats)

\* One trace per gene name, in the order the sorted rows first show it.
Traces(data, ordered_tissues, tissue_to_group, log_scale, with_hover) ==
    LET sorted_data == SortByTissue(data, ordered_tissues)
        names == Unique(Column(sorted_data, "GeneName"))
    IN  [n \in 1..Len(names) |->
            LET gene_data == SelectSeq(sorted_data,
                                       LAMBDA r : r.GeneName = names[n])
            IN  [name |-> names[n],
                 x |-> Column(gene_data, "Tissue"),
                 y |-> Column(gene_data, "nTPM"),
                 customdata |->
                     IF with_hover
                     THEN [i \in 1..Len(gene_data) |->
                              HoverText(names[n], gene_data[i].Tissue,
                                        gene_data[i].nTPM, tissue_to_group,
                                        log_scale)]
                     ELSE <<>>]]

\* pd.Categorical raises ValueError when the categories are not unique.
CategoricalRaises(ordered_tissues) == ~NoDuplicates(ordered_tissues)

CreateBarChart(data, ordered_tissues, tissue_to_group, log_scale) ==
    IF CategoricalRaises(ordered_tissues)
    THEN [kind |-> "raise", error |-> "ValueError", at |-> "Categorical"]
    ELSE [kind |-> "figure", type |-> "bar",
          data |-> data,
          traces |-> Traces(data, ordered_tissues, tissue_to_group, log_scale, TRUE),
          log_scale |-> log_scale,
          width |-> DynamicWidth(Len(Unique(Column(data, "Tissue")))),
          height |-> 700]

CreateBoxPlot(data, ordered_tissues, tissue_to_group, log_scale) ==
    IF CategoricalRaises(ordered_tissues)
    THEN [kind |-> "raise", error |-> "ValueError", at |-> "Categorical"]
    ELSE [kind |-> "figure", type |-> "box",
          data |-> data,
          traces |-> Traces(data, ordered_tissues, tissue_to_group, log_scale, FALSE),
          log_scale |-> log_scale,
          width |-> DynamicWidth(Len(Unique(Column(data, "Tissue")))),
          height |-> 700]

-----------------------------------------------------------------------------
(* app.py: the callbacks.  A selection is the value of the gene-selector   *)
(* dropdown: None, or a list of gene names.                                *)

NoSelection == [none |-> TRUE, items |-> <<>>]

Selected(items) == [none |-> FALSE, items |-> items]

\* "not selected_genes": None or an empty list
IsFalsy(selected_genes) == selected_genes.none \/ selected_genes.items = <<>>

\* "len(selected_genes) > 10" with the limit off by one
TooManyOffByOne(selected_genes) == Len(selected_genes.items) >= MaxGenes

\* "len(selected_genes) > 10" in update_visualization
TooMany(selected_genes) == Len(selected_genes.items) > MaxGenes

\* A test for the empty list alone, which lets None through to len().
IsEmptyList(selected_genes) == ~selected_genes.none /\ selected_genes.items = <<>>

\* The first test of update_visualization
NothingSelected(selected_genes) == IsFalsy(selected_genes)

UpdateGeneCount(selected_genes) ==
    IF IsFalsy(selected_genes) THEN [kind |-> "none_selected"]
    ELSE LET count == Len(selected_genes.items)
         IN  IF count > GeneCountLimit
             THEN [kind |-> "over_limit", count |-> count]
             ELSE [kind |-> "ok", count |-> count]

\* The alerts carry the functions the callback has called so far.
Alert(kind, calls) == [kind |-> kind, calls |-> calls]

UpdateVisualization(groups, table, selected_genes, grouping, viz_type, log_scale) ==
    IF NothingSelected(selected_genes) THEN Alert("select_genes", {})
    \* len(None) raises TypeError; the test above keeps None from it
    ELSE IF selected_genes.none
    THEN [kind |-> "raise", error |-> "TypeError", at |-> "len", calls |-> {}]
    ELSE IF TooMany(selected_genes) THEN Alert("too_many_genes", {})
    ELSE
    LET filtered == GetExpressionForGenes(table, selected_genes.items) IN
    IF filtered = <<>>
    THEN Alert("no_data", {"get_expression_for_genes"})
    ELSE
    LET resolved == GetOrderedTissuesByGroup(groups, table)
        organ == grouping = "organ"
        aggregated == IF organ THEN AggregateByOrganGroup(groups, table, filtered)
                      ELSE filtered
        ordered_tissues == IF organ THEN Sorted(Unique(Column(aggregated, "Tissue")))
                           ELSE resolved.ordered
        tissue_to_group ==
            IF organ
            THEN [i \in 1..Len(ordered_tissues) |->
                     [key |-> ordered_tissues[i], val |-> ordered_tissues[i]]]
            ELSE resolved.tissue_to_group
        is_log == log_scale = "log"
        data == IF is_log THEN LogTransform(aggregated) ELSE aggregated
        calls == {"get_expression_for_genes", "get_ordered_tissues_by_group"}
                 \cup (IF organ THEN {"aggregate_by_organ_group"} ELSE {})
        fig == IF viz_type = "heatmap"
               THEN CreateHeatmap(data, ordered_tissues, tissue_to_group,
                                  grouping = "tissue", is_log)
               ELSE IF viz_type = "bar"
               THEN CreateBarChart(data, ordered_tissues, tissue_to_group, is_log)
               ELSE CreateBoxPlot(data, ordered_tissues, tissue_to_group, is_log)
        builder == IF viz_type = "heatmap" THEN "create_heatmap"
                   ELSE IF viz_type = "bar" THEN "create_bar_chart"
                   ELSE "create_box_plot"
    IN  IF viz_type \notin {"heatmap", "bar", "box"}
        THEN Alert("invalid_viz_type", calls)
        ELSE IF fig.kind = "raise"
        THEN [kind |-> "raise", error |-> fig.error, at |-> fig.at,
              calls |-> calls \cup {builder}]
        ELSE [kind |-> "graph", figure |-> fig, calls |-> calls \cup {builder}]

-----------------------------------------------------------------------------
(* The resolver on its own: every dictionary file of at most MaxLines      *)
(* lines against every table of at most MaxTissues distinct tissues.       *)

SeqsUpTo(S, n) == UNION {[1..k -> S] : k \in 0..n}

ResolverLines ==
    {<<Hash, "Digestive">>, <<Hash, "Brain">>,
     <<"liver">>, <<"Liver">>, <<"skin">>}

ResolverTissues == {<<"liver">>, <<"Liver">>, <<"skin">>}

\* One gene observed once in each tissue, in the order given.
OneGeneTable(ts) ==
    [i \in 1..Len(ts) |-> Row(<<"ENSG1">>, <<"ALB">>, ts[i], Num(10))]

ResolverTables ==
    {OneGeneTable(ts) : ts \in {s \in SeqsUpTo(ResolverTissues, MaxTissues) :
                                    NoDuplicates(s)}}

InitResolver ==
    \E dictionary \in Dictionaries(SeqsUpTo(ResolverLines, MaxLines)),
       table \in ResolverTables :
        Startup(dictionary, table)

CallGetTissueToGroupMapping ==
    /\ Idle
    /\ ret' = [op |-> "get_tissue_to_group_mapping",
               tissue_to_group |->
                   GetTissueToGroupMapping(tissue_groups, expression_data)]
    /\ UNCHANGED loader

CallGetOrderedTissuesByGroup ==
    /\ Idle
    /\ LET r == GetOrderedTissuesByGroup(tissue_groups, expression_data)
       IN  ret' = [op |-> "get_ordered_tissues_by_group",
                   ordered |-> r.ordered,
                   tissue_to_group |-> r.tissue_to_group]
    /\ UNCHANGED loader

NextResolver ==
    \/ Return
    \/ CallGetTissueToGroupMapping
    \/ CallGetOrderedTissuesByGroup

SpecResolver == InitResolver /\ [][NextResolver]_vars

-----------------------------------------------------------------------------
(* What the resolver claims speak of.                                      *)

TableTissueSet == {expression_data[i].Tissue : i \in 1..Len(expression_data)}

\* The row at which a table tissue is first encountered.
FirstRow(t) ==
    CHOOSE i \in 1..Len(expression_data) :
        /\ expression_data[i].Tissue = t
        /\ \A j \in 1..(i - 1) : expression_data[j].Tissue # t

\* The table tissues that equal the dictionary name d ignoring case.
CaseMatches(d) == {t \in TableTissueSet : Lower(t) = Lower(d)}

\* The first of them in the table's encounter order.
FirstCaseMatch(d) ==
    CHOOSE t \in CaseMatches(d) :
        \A u \in CaseMatches(d) : FirstRow(t) <= FirstRow(u)

DictEntries == Entries(tissue_groups)

\* The positions, in file order, of the dictionary entries that resolve to
\* the table tissue t.
EntriesFor(t) ==
    {i \in 1..Len(DictEntries) :
        /\ CaseMatches(DictEntries[i].tissue) # {}
        /\ FirstCaseMatch(DictEntries[i].tissue) = t}

MinOf(S) == CHOOSE x \in S : \A y \in S : x <= y

OrderedReturned == ret.op = "get_ordered_tissues_by_group"

MappingReturned ==
    ret.op \in {"get_ordered_tissues_by_group", "get_tissue_to_group_mapping"}

\* C1: the ordered tissue list returned by get_ordered_tissues_by_group is a
\* permutation of the table's distinct tissues: every table tissue, no
\* tissue absent from the table, no tissue twice.
C1_OrderedIsPermutation ==
    OrderedReturned =>
        /\ SeqToSet(ret.ordered) = TableTissueSet
        /\ NoDuplicates(ret.ordered)

\* C2: when two dictionary entries resolve to the same table tissue, the
\* returned map gives that tissue the group of the entry that is first in
\* file order.
C2_EarliestEntryWins ==
    MappingReturned =>
        \A t \in TableTissueSet :
            Cardinality(EntriesFor(t)) >= 2 =>
                /\ DictHas(ret.tissue_to_group, t)
                /\ DictGet(ret.tissue_to_group, t) =
                       DictEntries[MinOf(EntriesFor(t))].group

\* C3: the map returned by get_ordered_tissues_by_group has exactly the
\* table's distinct tissues as its keys, and every table tissue that no
\* dictionary entry matches ignoring case is mapped to "Other".
C3_MapTotalWithOther ==
    OrderedReturned =>
        /\ SeqToSet(DictKeys(ret.tissue_to_group)) = TableTissueSet
        /\ NoDuplicates(DictKeys(ret.tissue_to_group))
        /\ \A t \in TableTissueSet :
               (\A i \in 1..Len(DictEntries) :
                    Lower(DictEntries[i].tissue) # Lower(t))
               => DictGetOr(ret.tissue_to_group, t, <<>>) = Other

\* A call on a table with a tissue the dictionary places in a group and a
\* tissue the dictionary does not mention.
C3_Witness ==
    /\ OrderedReturned
    /\ \E t \in TableTissueSet :
           \A i \in 1..Len(DictEntries) : Lower(DictEntries[i].tissue) # Lower(t)
    /\ \E t \in TableTissueSet :
           /\ EntriesFor(t) # {}
           /\ DictGet(ret.tissue_to_group, t) # Other
           /\ InSeq(t, ret.ordered)

\* The table tissues no dictionary entry resolves to, in encounter order.
Unplaced ==
    SelectSeq(AllTissuesInData(expression_data), LAMBDA t : EntriesFor(t) = {})

GroupIndex(g) ==
    CHOOSE i \in 1..Len(tissue_groups) : tissue_groups[i].key = g

\* C4: the returned list reads, by the returned map, as the dictionary's
\* groups in file order, each group contiguous, followed by the tissues
\* the dictionary does not place, mapped to "Other", in encounter order.
C4_GroupedInDictionaryOrder ==
    OrderedReturned =>
        LET n == Len(ret.ordered) - Len(Unplaced)
            group(i) == DictGet(ret.tissue_to_group, ret.ordered[i])
        IN  /\ n >= 0
            /\ SubSeq(ret.ordered, n + 1, Len(ret.ordered)) = Unplaced
            /\ \A i \in (n + 1)..Len(ret.ordered) : group(i) = Other
            /\ \A i, j \in 1..n :
                   i < j => GroupIndex(group(i)) <= GroupIndex(group(j))

\* C5 as stated: every dictionary entry d of group G that matches a table
\* tissue ignoring case puts the first such table tissue in the list and
\* maps it to G; the further table tissues matching d get no group from it.
C5_EntryGivesItsGroup ==
    OrderedReturned =>
        \A i \in 1..Len(DictEntries) :
            LET d == DictEntries[i].tissue IN
            CaseMatches(d) # {} =>
                /\ InSeq(FirstCaseMatch(d), ret.ordered)
                /\ DictGetOr(ret.tissue_to_group, FirstCaseMatch(d), <<>>) =
                       DictEntries[i].group
                /\ \A u \in CaseMatches(d) \ {FirstCaseMatch(d)} :
                       DictGetOr(ret.tissue_to_group, u, <<>>) = Other

\* C5 as amended: the first matching table tissue is in the list and is
\* mapped to the group of a dictionary entry that matches it ignoring case
\* (G itself when no entry of another group does); the further table
\* tissues matching d are mapped to "Other".
C5_EntryGivesAMatchingGroup ==
    OrderedReturned =>
        \A i \in 1..Len(DictEntries) :
            LET d == DictEntries[i].tissue IN
            CaseMatches(d) # {} =>
                /\ InSeq(FirstCaseMatch(d), ret.ordered)
                /\ DictGetOr(ret.tissue_to_group, FirstCaseMatch(d), <<>>) \in
                       {DictEntries[j].group : j \in EntriesFor(FirstCaseMatch(d))}
                /\ \A u \in CaseMatches(d) \ {FirstCaseMatch(d)} :
                       DictGetOr(ret.tissue_to_group, u, <<>>) = Other

\* A dictionary entry that matches two table tissues, the first of them in
\* a spelling other than the entry's.
C5_Witness ==
    /\ OrderedReturned
    /\ \E i \in 1..Len(DictEntries) :
           LET d == DictEntries[i].tissue IN
           /\ Cardinality(CaseMatches(d)) = 2
           /\ FirstCaseMatch(d) # d
           /\ DictGet(ret.tissue_to_group, FirstCaseMatch(d)) = DictEntries[i].group

-----------------------------------------------------------------------------
(* The aggregator on its own: dictionary files of at most MaxDictLines      *)
(* lines, tables of at most MaxRows rows, one row per (gene id, tissue),   *)
(* in the order of the source file (by gene, then tissue).                 *)

GeneIds == <<"ENSG1", "ENSG2", "ENSG3">>

\* Two gene ids share the gene name INS.
GeneNameOf == ("ENSG1" :> "ALB") @@ ("ENSG2" :> "INS") @@ ("ENSG3" :> "INS")

AggTissues == <<"liver", "skin">>

\* nTPM values: 10 and 20 average to 15; 3 + 1 is a power of two, the
\* mean of 0 and 3 plus 1 is not.
AggLevels == {0, 10, 20}
ChartLevels == {0, 3}

Cells == {<<g, t>> : g \in 1..Len(GeneIds), t \in 1..Len(AggTissues)}

CellRank(c) == (c[1] - 1) * Len(AggTissues) + c[2]

\* The rows of the cells in S with the values f, by gene and then tissue.
RECURSIVE TableOf(_, _)
TableOf(S, f) ==
    IF S = {} THEN <<>>
    ELSE LET c == CHOOSE x \in S : \A y \in S : CellRank(x) <= CellRank(y)
         IN  <<Row(<<GeneIds[c[1]]>>, <<GeneNameOf[GeneIds[c[1]]]>>,
                   <<AggTissues[c[2]]>>, Num(f[c]))>>
             \o TableOf(S \ {c}, f)

TablesUpTo(n, levels) ==
    UNION {{TableOf(S, f) : f \in [S -> levels]} :
              S \in {T \in SUBSET Cells : Cardinality(T) \in 1..n}}

AggLines == {<<Hash, "Digestive">>, <<Hash, "Brain">>, <<"liver">>, <<"Skin">>}

InitAggregator ==
    \E dictionary \in Dictionaries(SeqsUpTo(AggLines, MaxDictLines)),
       table \in TablesUpTo(MaxRows, AggLevels) :
        Startup(dictionary, table)

\* The lists of gene names a caller may pass: the table's names in sorted
\* order, any of them left out.
NameLists == {SelectSeq(genes, LAMBDA n : n \in S) : S \in SUBSET SeqToSet(genes)}

CallGetExpressionForGenes ==
    /\ Idle
    /\ \E gene_names \in NameLists :
           ret' = [op |-> "get_expression_for_genes",
                   gene_names |-> gene_names,
                   data |-> GetExpressionForGenes(expression_data, gene_names)]
    /\ UNCHANGED loader

CallAggregateByOrganGroup ==
    /\ Idle
    /\ \E gene_names \in NameLists :
           LET data == GetExpressionForGenes(expression_data, gene_names)
           IN  ret' = [op |-> "aggregate_by_organ_group",
                       data |-> data,
                       aggregated |->
                           AggregateByOrganGroup(tissue_groups, expression_data, data)]
    /\ UNCHANGED loader

NextAggregator ==
    \/ Return
    \/ CallGetExpressionForGenes
    \/ CallAggregateByOrganGroup

SpecAggregator == InitAggregator /\ [][NextAggregator]_vars

Aggregated == ret.op = "aggregate_by_organ_group"

\* The group the claim gives a row: its tissue's group in the map of
\* get_tissue_to_group_mapping, "Other" when the tissue has none.
ClaimedGroup(r) ==
    LET m == GetTissueToGroupMapping(tissue_groups, expression_data)
    IN  IF DictHas(m, r.Tissue) THEN DictGet(m, r.Tissue) ELSE Other

Combination(r) == <<r.Gene, r.GeneName, ClaimedGroup(r)>>

RowsOf(data, c) == {i \in 1..Len(data) : Combination(data[i]) = c}

RECURSIVE SumOfRows(_, _)
SumOfRows(data, S) ==
    IF S = {} THEN 0
    ELSE LET i == CHOOSE x \in S : TRUE
         IN  data[i].nTPM.num + SumOfRows(data, S \ {i})

\* C6: for non-empty input rows, aggregate_by_organ_group returns exactly
\* one row for each (gene id, gene name, organ group) combination of the
\* input and no other row, and the row's value times the number of input
\* rows of the combination is the sum of their values.
C6_OneMeanRowPerCombination ==
    (Aggregated /\ ret.data # <<>>) =>
        LET combos == {Combination(ret.data[i]) : i \in 1..Len(ret.data)}
            out == ret.aggregated
        IN  /\ {<<out[i].Gene, out[i].GeneName, out[i].Tissue>> :
                   i \in 1..Len(out)} = combos
            /\ Len(out) = Cardinality(combos)
            /\ \A i \in 1..Len(out) :
                   LET rows == RowsOf(ret.data,
                                      <<out[i].Gene, out[i].GeneName, out[i].Tissue>>)
                   IN  /\ out[i].nTPM.den > 0
                       /\ ~out[i].nTPM.lg
                       /\ out[i].nTPM.num * Cardinality(rows) =
                              SumOfRows(ret.data, rows) * out[i].nTPM.den

\* One gene with 10 and 20 in two tissues of Digestive gives 15.
C6_Witness ==
    /\ Aggregated
    /\ \E i \in 1..Len(ret.aggregated) :
           /\ ret.aggregated[i].Tissue = <<"Digestive">>
           /\ ret.aggregated[i].nTPM = Num(15)
           /\ Cardinality(RowsOf(ret.data, <<ret.aggregated[i].Gene,
                                              ret.aggregated[i].GeneName,
                                              <<"Digestive">>>>)) = 2

-----------------------------------------------------------------------------
(* What a call of update_visualization does to the objects it touches.     *)
(* The objects are the loader's three attributes and the data frames made  *)
(* during the call.  A frame is named by a reference: 0 is                 *)
(* data_loader.expression_data itself, k >= 1 the k-th frame made in the   *)
(* call.  st.h holds the objects, st.r the frame the local variable names. *)

Objects(table, groups, gene_list) ==
    [table |-> table, groups |-> groups, genes |-> gene_list, frames |-> <<>>]

Deref(h, r) == IF r = 0 THEN h.table ELSE h.frames[r]

\* An operation that returns a new frame (a mask, groupby, sort_values).
NewFrame(st, rows) ==
    [h |-> [st.h EXCEPT !.frames = Append(@, rows)], r |-> Len(st.h.frames) + 1]

\* DataFrame.copy()
CopyFrame(st) == NewFrame(st, Deref(st.h, st.r))

\* An assignment into the frame the variable names (data[col] = ...,
\* rename(inplace=True)): whoever else names the frame sees it.
WriteFrame(st, rows) ==
    [st EXCEPT !.h = IF st.r = 0 THEN [@ EXCEPT !.table = rows]
                     ELSE [@ EXCEPT !.frames[st.r] = rows]]

\* A filter that keeps its result in self.expression_data.
FilterGenesInPlace(st, gene_names) ==
    WriteFrame(st, GetExpressionForGenes(Deref(st.h, st.r), gene_names))

\* get_expression_for_genes: the mask makes a frame, .copy() another.
FilterGenes(st, gene_names) ==
    CopyFrame(NewFrame(st, GetExpressionForGenes(Deref(st.h, st.r), gene_names)))

\* aggregate_by_organ_group: data.copy(), the 'Organ Group' column written
\* into the copy, the groupby result, its column renamed in place.
AggregateFrames(st) ==
    LET copied == CopyFrame(st)
        data == Deref(copied.h, copied.r)
        tissue_to_group == GetTissueToGroupMapping(st.h.groups, st.h.table)
        with_group ==
            WriteFrame(copied,
                [i \in 1..Len(data) |->
                    ("OrganGroup" :> OrganGroup(tissue_to_group, data[i].Tissue))
                    @@ data[i]])
        aggregated == AggregateByOrganGroup(st.h.groups, st.h.table, data)
    IN  WriteFrame(NewFrame(with_group, aggregated), aggregated)

\* expression_data.copy(); expression_data['nTPM'] = np.log2(...)
LogFrames(st) ==
    LET copied == CopyFrame(st)
    IN  WriteFrame(copied, LogTransform(Deref(copied.h, copied.r)))

\* create_bar_chart, create_box_plot: data.copy(), the 'Tissue' column
\* written into the copy (where pd.Categorical does not raise), sort_values.
BarOrBoxFrames(st, ordered_tissues) ==
    LET copied == CopyFrame(st)
        data == Deref(copied.h, copied.r)
    IN  IF CategoricalRaises(ordered_tissues) THEN copied
        ELSE NewFrame(WriteFrame(copied, data), SortByTissue(data, ordered_tissues))

\* The objects after update_visualization; create_heatmap only reads its
\* data (pivot and column selection return new frames).
VisualizationEffect(h, selected_genes, grouping, viz_type, log_scale) ==
    IF NothingSelected(selected_genes) \/ selected_genes.none
       \/ TooMany(selected_genes)
    THEN h
    ELSE
    LET filtered == FilterGenes([h |-> h, r |-> 0], selected_genes.items) IN
    IF Deref(filtered.h, filtered.r) = <<>> THEN filtered.h
    ELSE
    LET organ == grouping = "organ"
        resolved == GetOrderedTissuesByGroup(filtered.h.groups, filtered.h.table)
        aggregated == IF organ THEN AggregateFrames(filtered) ELSE filtered
        ordered_tissues ==
            IF organ
            THEN Sorted(Unique(Column(Deref(aggregated.h, aggregated.r), "Tissue")))
            ELSE resolved.ordered
        scaled == IF log_scale = "log" THEN LogFrames(aggregated) ELSE aggregated
    IN  IF viz_type \in {"bar", "box"}
        THEN BarOrBoxFrames(scaled, ordered_tissues).h
        ELSE scaled.h

-----------------------------------------------------------------------------
(* The callbacks.  The dropdown offers DataLoader.genes; a callback may    *)
(* also be sent names the table does not hold (PadNames).                  *)

PadNames ==
    <<"X01", "X02", "X03", "X04", "X05", "X06", "X07", "X08", "X09", "X10", "X11">>

Pad(k) == [i \in 1..k |-> <<PadNames[i]>>]

Groupings == {"tissue", "organ"}
VizTypes == {"heatmap", "bar", "box", "pie"}
Scales == {"linear", "log"}

\* None, the empty list, and every list of the table's gene names.
ChartSelections == {NoSelection} \cup {Selected(names) : names \in NameLists}

\* None, and the lists of 0 to 13 names: table names, then unknown names.
SizeSelections ==
    {NoSelection} \cup
    {Selected(names \o Pad(k)) : names \in NameLists, k \in 0..Len(PadNames)}

CallUpdateGeneCount(selections) ==
    /\ Idle
    /\ \E selected_genes \in selections :
           ret' = [op |-> "update_gene_count",
                   selected_genes |-> selected_genes,
                   result |-> UpdateGeneCount(selected_genes)]
    /\ UNCHANGED loader

CallUpdateVisualization(selections) ==
    /\ Idle
    /\ \E selected_genes \in selections, grouping \in Groupings,
          viz_type \in VizTypes, log_scale \in Scales :
           /\ ret' = [op |-> "update_visualization",
                   selected_genes |-> selected_genes,
                   grouping |-> grouping,
                   viz_type |-> viz_type,
                   log_scale |-> log_scale,
                   result |-> UpdateVisualization(tissue_groups, expression_data,
                                 selected_genes, grouping, viz_type, log_scale)]
           /\ LET after == VisualizationEffect(
                               Objects(expression_data, tissue_groups, genes),
                               selected_genes, grouping, viz_type, log_scale)
              IN  /\ expression_data' = after.table
                  /\ tissue_groups' = after.groups
                  /\ genes' = after.genes

AppLines == {<<Hash, "Digestive">>, <<"liver">>, <<"Skin">>}

\* The charts: every table of at most MaxRows rows, every selection of its
\* gene names.
Init ==
    \E dictionary \in Dictionaries(SeqsUpTo(AppLines, MaxDictLines)),
       table \in TablesUpTo(MaxRows, ChartLevels) :
        Startup(dictionary, table)

Next ==
    \/ Return
    \/ CallUpdateGeneCount(ChartSelections)
    \/ CallUpdateVisualization(ChartSelections)

Spec == Init /\ [][Next]_vars

\* The selection tests: one gene, selections of every size up to 12.
InitSelection ==
    \E dictionary \in Dictionaries(SeqsUpTo(AppLines, MaxDictLines)),
       table \in ResolverTables :
        Startup(dictionary, table)

NextSelection ==
    \/ Return
    \/ CallUpdateGeneCount(SizeSelections)
    \/ CallUpdateVisualization(SizeSelections)

SpecSelection == InitSelection /\ [][NextSelection]_vars

Visualized == ret.op = "update_visualization"

\* C7: update_visualization answers a selection of 11 or more genes with
\* the too-many-genes warning, having called nothing, whatever the other
\* inputs; a selection of 1 to 10 genes never gets that warning;
\* update_gene_count warns for exactly the selections of 11 or more.
C7_RejectsExactlyAboveTen ==
    /\ Visualized =>
           /\ (~ret.selected_genes.none /\ Len(ret.selected_genes.items) >= 11)
                  => (ret.result.kind = "too_many_genes" /\ ret.result.calls = {})
           /\ Len(ret.selected_genes.items) \in 1..10
                  => ret.result.kind # "too_many_genes"
    /\ ret.op = "update_gene_count" =>
           (ret.result.kind = "over_limit"
                <=> (~ret.selected_genes.none /\ Len(ret.selected_genes.items) >= 11))

\* A selection of exactly 10 genes that ends in a chart.
C7_Witness ==
    /\ Visualized
    /\ Len(ret.selected_genes.items) = 10
    /\ ret.result.kind = "graph"

\* C8: for None or the empty list update_visualization returns the
\* select-genes prompt whatever the other inputs are; it has called neither
\* the filter nor a chart builder, and it does not raise.
C8_EmptySelectionPrompts ==
    (Visualized /\ (ret.selected_genes.none \/ ret.selected_genes.items = <<>>)) =>
        /\ ret.result.kind = "select_genes"
        /\ ret.result.calls = {}

\* No value at all, with an unrecognized chart type.
C8_Witness ==
    /\ Visualized
    /\ ret.selected_genes.none
    /\ ret.viz_type = "pie"
    /\ ret.result.kind = "select_genes"

HeatmapBuilt ==
    /\ Visualized
    /\ ret.result.kind = "graph"
    /\ ret.result.figure.type = "heatmap"

\* C9: in the matrix of create_heatmap there is a row for every gene name
\* and a column for every tissue of the rows it was given; a cell with no
\* row holds NaN, not 0, and its hover text is N/A; a cell with a row holds
\* the row's value and its hover text is not N/A.
C9_MissingCellsAreNoData ==
    HeatmapBuilt =>
        LET fig == ret.result.figure
            rows(i, j) == {k \in 1..Len(fig.data) :
                              /\ fig.data[k].GeneName = fig.y[i]
                              /\ fig.data[k].Tissue = fig.x[j]}
        IN  /\ SeqToSet(fig.y) = {fig.data[k].GeneName : k \in 1..Len(fig.data)}
            /\ SeqToSet(fig.x) = {fig.data[k].Tissue : k \in 1..Len(fig.data)}
            /\ \A i \in 1..Len(fig.y), j \in 1..Len(fig.x) :
                   IF rows(i, j) = {}
                   THEN /\ IsNa(fig.z[i][j])
                        /\ fig.z[i][j] # Num(0)
                        /\ fig.customdata[i][j].na
                   ELSE /\ \A k \in rows(i, j) : fig.z[i][j] = fig.data[k].nTPM
                        /\ ~IsNa(fig.z[i][j])
                        /\ ~fig.customdata[i][j].na

\* A heatmap with a cell that has no row beside a cell whose value is 0.
C9_Witness ==
    /\ HeatmapBuilt
    /\ LET fig == ret.result.figure
       IN  \E i, j \in 1..Len(fig.y), h, l \in 1..Len(fig.x) :
               /\ IsNa(fig.z[i][h])
               /\ fig.customdata[i][h].na
               /\ fig.z[j][l] = Num(0)
               /\ ~fig.customdata[j][l].na

\* C10: for a selection that finds rows, with a recognized chart type,
\* update_visualization ends in a chart.  (Stated for the calls in which
\* the resolver's list has no repeated tissue.)
C10_BuildersNeverRaise ==
    (/\ Visualized
     /\ ret.viz_type \in {"heatmap", "bar", "box"}
     /\ ~IsFalsy(ret.selected_genes)
     /\ Len(ret.selected_genes.items) <= 10
     /\ GetExpressionForGenes(expression_data, ret.selected_genes.items) # <<>>
     /\ NoDuplicates(GetOrderedTissuesByGroup(tissue_groups, expression_data).ordered))
    => ret.result.kind = "graph"

-----------------------------------------------------------------------------
\* C11: after start-up, no call of update_visualization or
\* update_gene_count (nor the return of one) changes the loader's
\* expression table, tissue dictionary or gene list.
C11_LoaderNeverChanges == [][loader' = loader]_vars

\* A call that filters out part of the table, aggregates by organ, takes
\* logarithms and builds a bar chart.
C11_Witness ==
    /\ Visualized
    /\ ret.grouping = "organ"
    /\ ret.log_scale = "log"
    /\ ret.viz_type = "bar"
    /\ ret.result.kind = "graph"
    /\ Len(GetExpressionForGenes(expression_data, ret.selected_genes.items))
           < Len(expression_data)

-----------------------------------------------------------------------------
(* The dictionary parser on its own: load_histology_dictionary is called   *)
(* on a file of up to MaxFileLines lines, at start-up after the table has  *)
(* been loaded and again whenever the method is called.                    *)

ParserLines ==
    {<<Hash, "Digestive">>, <<Hash, Space, "Brain", Space>>, <<Hash>>,
     <<>>, <<Space>>, <<Space, "liver", Space>>, <<"skin">>}

ParserFiles == SeqsUpTo(ParserLines, MaxFileLines)

\* load_expression_data has run; tissue_groups is still to be loaded.
InitParser ==
    /\ expression_data = OneGeneTable(<<<<"liver">>, <<"skin">>>>)
    /\ genes = LoadedGenes(expression_data)
    /\ tissue_groups = <<>>
    /\ ret = [op |-> "idle"]

CallLoadHistologyDictionary ==
    /\ Idle
    /\ \E lines \in ParserFiles :
           LET parsed == LoadHistologyDictionary(lines) IN
           /\ tissue_groups' = parsed
           /\ ret' = [op |-> "load_histology_dictionary",
                      lines |-> lines, result |-> parsed]
    /\ UNCHANGED <<expression_data, genes>>

NextParser == Return \/ CallLoadHistologyDictionary

SpecParser == InitParser /\ [][NextParser]_vars

\* The dictionary the file describes: a line is a header when, trimmed, it
\* starts with '#', and a tissue line when, trimmed, it is non-empty and
\* does not; a header's name is the trimmed rest of the line.
Trimmed(lines) == [i \in 1..Len(lines) |-> Strip(lines[i])]

IsTissueLine(line) == line # <<>> /\ ~StartsWithHash(line)

HeaderNameOf(line) == Strip(Tail(line))

\* Index of the most recent header line before line i; 0 when there is none.
LastHeaderBefore(ls, i) ==
    LET before == {j \in 1..(i - 1) : StartsWithHash(ls[j])}
    IN  IF before = {} THEN 0 ELSE CHOOSE j \in before : \A k \in before : k <= j

FollowsHeaderNamed(ls, i, name) ==
    /\ IsTissueLine(ls[i])
    /\ LastHeaderBefore(ls, i) # 0
    /\ HeaderNameOf(ls[LastHeaderBefore(ls, i)]) = name

\* The tissue lines among the first n that follow a header named name,
\* in file order.
RECURSIVE TissuesUnder(_, _, _)
TissuesUnder(ls, name, n) ==
    IF n = 0 THEN <<>>
    ELSE LET rest == TissuesUnder(ls, name, n - 1)
         IN  IF FollowsHeaderNamed(ls, n, name) THEN Append(rest, ls[n]) ELSE rest

HeaderNames(ls) ==
    LET headers == SelectSeq(ls, StartsWithHash)
    IN  Unique([i \in 1..Len(headers) |-> HeaderNameOf(headers[i])])

DescribedDictionary(lines) ==
    LET ls == Trimmed(lines)
        names == HeaderNames(ls)
    IN  [k \in 1..Len(names) |->
            [key |-> names[k], val |-> TissuesUnder(ls, names[k], Len(ls))]]

DictionaryLoaded == ret.op = "load_histology_dictionary"

\* C12: for every file, load_histology_dictionary returns the groups in
\* the order of their first header, each with the tissue lines that follow
\* a header of its name (repeated or empty names included), in file order;
\* tissue lines before any header and blank lines are left out.
C12_ParsesEveryTissueLine ==
    DictionaryLoaded => ret.result = DescribedDictionary(ret.lines)

====
